---- MODULE Spec2Model ----
(***************************************************************************)
(* Gaussian-process notebook (src/unnamed/part_000): the cells that build  *)
(* the squared-exponential kernel, draw from the prior and compute the     *)
(* closed-form posterior, as operations on the notebook's global names.    *)
(*                                                                         *)
(* Numbers.  An array holds integers over one common denominator `den`,    *)
(* so every sum, product and inverse below is exact rational arithmetic.   *)
(* Locations are multiples of 1/XDen; the inputs used are whole numbers    *)
(* and Tiny, one location next to 0 whose distance to 0 is below what the  *)
(* kernel can resolve (in float64: 1e-17, for which exp(-0.5*d*d) is       *)
(* exactly 1.0 and d - c is exactly -c for every whole c # 0).  cp.exp is  *)
(* the table ExpTab, two decimals of exp(-0.5*s) for whole s.  The jitter  *)
(* 1E-6 lies four orders below that quantum and is kept exactly in the     *)
(* denominator JitterDen.                                                  *)
(***************************************************************************)
EXTENDS Integers, Sequences, FiniteSets, TLC

\* ------------------------------------------------------------ bounds
MaxCoord == 1
MaxTrain == 2
MaxQuery == 3
NumSamples == 3
MaxGrid == 2
MaxCells == 3
MaxPosteriors == 2
MaxTime == 7
MaxPatients == 2

\* ------------------------------------------------------------ numbers
\* round(100 * exp(-0.5 * s)) for s = 0, 1, 2, ...; 0 beyond the table
ExpTab == <<100, 61, 37, 22, 14, 8, 5, 3, 2, 1, 1>>
Scale == ExpTab[1]
XDen == 10 * Scale
JitterDen == 1000000

Abs(x) == IF x < 0 THEN -x ELSE x
Max(x, y) == IF x < y THEN y ELSE x

\* Euclid's algorithm on the pair p, four steps at a time
EuclidStep(p) == IF p[2] = 0 THEN p ELSE <<p[2], p[1] % p[2]>>
RECURSIVE GcdPair(_)
GcdPair(p) ==
    IF p[2] = 0 THEN p[1]
    ELSE GcdPair(EuclidStep(EuclidStep(EuclidStep(EuclidStep(p)))))
Gcd(x, y) == GcdPair(<<x, y>>)

Lcm(x, y) == (x \div Gcd(x, y)) * y

\* the sum and the gcd of s[lo..hi], by halves
RECURSIVE SumRange(_, _, _)
SumRange(s, lo, hi) ==
    IF lo > hi THEN 0
    ELSE IF lo = hi THEN s[lo]
    ELSE SumRange(s, lo, (lo + hi) \div 2) + SumRange(s, ((lo + hi) \div 2) + 1, hi)
SeqSum(s) == SumRange(s, 1, Len(s))

RECURSIVE GcdRange(_, _, _)
GcdRange(s, lo, hi) ==
    IF lo > hi THEN 0
    ELSE IF lo = hi THEN Abs(s[lo])
    ELSE Gcd(GcdRange(s, lo, (lo + hi) \div 2),
             GcdRange(s, ((lo + hi) \div 2) + 1, hi))
SeqGcd(s) == GcdRange(s, 1, Len(s))

\* round-half-up of x / d for x >= 0, d > 0
RoundDiv(x, d) == (2 * x + d) \div (2 * d)

RECURSIVE SqrtSearch(_, _, _)
SqrtSearch(x, lo, hi) ==
    IF lo = hi THEN lo
    ELSE LET mid == (lo + hi + 1) \div 2
         IN  IF mid * mid <= x THEN SqrtSearch(x, mid, hi)
             ELSE SqrtSearch(x, lo, mid - 1)

\* the square root of x >= 0 rounded to the nearest whole number
RoundSqrt(x) ==
    LET r == SqrtSearch(x, 0, 46340)
    IN  IF x - r * r > r THEN r + 1 ELSE r

\* ------------------------------------------------------------ ndarrays
\* nd: number of axes (1 or 2); a: the rows (a 1-D array is one row);
\* the entries are a[i][j] / den; nan: the entries are inf/nan;
\* kind: "val" numbers, "chol" the lower Cholesky factor of a/den,
\* "rand" random draws (only the shape is kept); err: "" or the exception.
\* (the concatenations make each row, and the rows, explicit tuples)
Mat(r, c, F(_, _)) == <<>> \o [i \in 1..r |-> <<>> \o [j \in 1..c |-> F(i, j)]]

Rows(A) == Len(A.a)
Cols(A) == Len(A.a[1])
Shape(A) == IF A.nd = 1 THEN <<Cols(A)>> ELSE <<Rows(A), Cols(A)>>
Flat(a) ==
    LET c == Len(a[1])
    IN  <<>> \o [k \in 1..(Len(a) * c) |-> a[((k - 1) \div c) + 1][((k - 1) % c) + 1]]

Raise(e) ==
    [a |-> <<>>, nd |-> 0, den |-> 1, nan |-> FALSE, kind |-> "val", err |-> e]
IsErr(A) == A.err # ""

Zero(i, j) == 0
NaNArr(nd, r, c) ==
    [a |-> Mat(r, c, Zero), nd |-> nd, den |-> 1, nan |-> TRUE,
     kind |-> "val", err |-> ""]
RandArr(nd, r, c) ==
    [a |-> Mat(r, c, Zero), nd |-> nd, den |-> 1, nan |-> FALSE,
     kind |-> "rand", err |-> ""]

\* the array a / den in lowest terms
Arr(nd, m, d) ==
    LET g == Gcd(d, SeqGcd(Flat(m)))
    IN  [a |-> <<>> \o [i \in 1..Len(m) |->
                          <<>> \o [j \in 1..Len(m[1]) |-> m[i][j] \div g]],
         nd |-> nd,
         den |-> d \div g, nan |-> FALSE, kind |-> "val", err |-> ""]

\* cp.array([...]).reshape(-1, 1) and cp.array([[..], ..]): rows of points
Array2(rows, den) == Arr(2, rows, den)
\* a flat vector
Array1(row, den) == Arr(1, <<row>>, den)

\* len(x)
PyLen(A) == IF A.nd = 1 THEN Cols(A) ELSE Rows(A)

\* x.T
Transpose(A) ==
    IF IsErr(A) \/ A.nd = 1 THEN A
    ELSE LET at(i, j) == A.a[j][i]
         IN  [A EXCEPT !.a = Mat(Cols(A), Rows(A), at)]

\* x.flatten()
Flatten(A) ==
    IF IsErr(A) THEN A ELSE [A EXCEPT !.nd = 1, !.a = <<Flat(A.a)>>]

\* NumPy broadcasting of two arrays of one or two axes
BroadcastOK(A, B) ==
    /\ (Rows(A) = Rows(B) \/ Rows(A) = 1 \/ Rows(B) = 1)
    /\ (Cols(A) = Cols(B) \/ Cols(A) = 1 \/ Cols(B) = 1)
At(A, i, j) ==
    A.a[IF Rows(A) = 1 THEN 1 ELSE i][IF Cols(A) = 1 THEN 1 ELSE j]

\* x + sign * y, elementwise with broadcasting
AddSub(A, B, sign) ==
    IF IsErr(A) THEN A
    ELSE IF IsErr(B) THEN B
    ELSE IF ~BroadcastOK(A, B) THEN Raise("ValueError")
    ELSE LET r == Max(Rows(A), Rows(B))
             c == Max(Cols(A), Cols(B))
             nd == Max(A.nd, B.nd)
             l == Lcm(A.den, B.den)
             at(i, j) == At(A, i, j) * (l \div A.den)
                         + sign * At(B, i, j) * (l \div B.den)
         IN  IF A.nan \/ B.nan THEN NaNArr(nd, r, c)
             ELSE Arr(nd, Mat(r, c, at), l)
Sub(x, y) == AddSub(x, y, -1)
Add(x, y) == AddSub(x, y, 1)

\* cp.power(x, 2)
Power2(A) ==
    IF IsErr(A) \/ A.nan THEN A
    ELSE LET at(i, j) == A.a[i][j] * A.a[i][j]
         IN  Arr(A.nd, Mat(Rows(A), Cols(A), at), A.den * A.den)

ExpEntry(x, den) ==
    LET s == RoundDiv(x, den)
    IN  IF s + 1 <= Len(ExpTab) THEN ExpTab[s + 1] ELSE 0

\* cp.exp(-0.5 * x) for an array x of squares
ExpNegHalf(A) ==
    IF IsErr(A) \/ A.nan THEN A
    ELSE LET at(i, j) == ExpEntry(A.a[i][j], A.den)
         IN  Arr(A.nd, Mat(Rows(A), Cols(A), at), Scale)

\* cp.eye(k)
Eye(k) ==
    LET at(i, j) == IF i = j THEN 1 ELSE 0
    IN  Arr(2, Mat(k, k, at), 1)

\* 1E-6 * x
TimesJitter(A) ==
    IF IsErr(A) \/ A.nan THEN A ELSE Arr(A.nd, A.a, A.den * JitterDen)

\* x @ y (NumPy matmul) for arrays of one or two axes
MatMul(A, B) ==
    IF IsErr(A) THEN A
    ELSE IF IsErr(B) THEN B
    ELSE LET inner == Cols(A)
             other == IF B.nd = 1 THEN Cols(B) ELSE Rows(B)
             r == Rows(A)
             c == IF B.nd = 1 THEN 1 ELSE Cols(B)
             b(k, j) == IF B.nd = 1 THEN B.a[1][k] ELSE B.a[k][j]
             at(i, j) == SeqSum([k \in 1..inner |-> A.a[i][k] * b(k, j)])
             nd == IF A.nd = 2 /\ B.nd = 2 THEN 2 ELSE 1
         IN  IF inner # other THEN Raise("ValueError")
             ELSE IF A.nan \/ B.nan
                  THEN IF nd = 2 THEN NaNArr(2, r, c)
                       ELSE NaNArr(1, 1, IF A.nd = 1 THEN c ELSE r)
             ELSE LET out == Arr(2, Mat(r, c, at), A.den * B.den)
                  IN  IF nd = 2 THEN out
                      ELSE IF A.nd = 1 THEN [out EXCEPT !.nd = 1]
                      ELSE Flatten(out)

\* the matrix a without row i and column j
Minor(a, i, j) ==
    LET k == Len(a) - 1
        at(p, q) == a[IF p < i THEN p ELSE p + 1][IF q < j THEN q ELSE q + 1]
    IN  Mat(k, k, at)

RECURSIVE Det(_)
Det(a) ==
    IF Len(a) = 1 THEN a[1][1]
    ELSE SeqSum([j \in 1..Len(a) |->
                    (IF j % 2 = 1 THEN 1 ELSE -1) * a[1][j] * Det(Minor(a, 1, j))])

Adjugate(a) ==
    LET k == Len(a)
        at(i, j) == IF k = 1 THEN 1
                    ELSE (IF (i + j) % 2 = 0 THEN 1 ELSE -1) * Det(Minor(a, j, i))
    IN  Mat(k, k, at)

\* CuPy's linalg error state (cupyx.errstate(linalg=...)): "raise" turns a
\* failed factorization into LinAlgError, "ignore" leaves the solver's
\* status unread and the result holds inf/nan entries.  Which one is in
\* force depends on the installed CuPy.
ErrStates == {"raise", "ignore"}

\* cp.linalg.inv(x)
Inv(A, es) ==
    IF IsErr(A) THEN A
    ELSE IF A.nd # 2 \/ Rows(A) # Cols(A) THEN Raise("LinAlgError")
    ELSE IF A.nan THEN A
    ELSE LET d == Det(A.a)
             adj == Adjugate(A.a)
             sg == IF d < 0 THEN -1 ELSE 1
             at(i, j) == sg * A.den * adj[i][j]
         IN  IF d = 0
             THEN IF es = "raise" THEN Raise("LinAlgError")
                  ELSE NaNArr(2, Rows(A), Cols(A))
             ELSE Arr(2, Mat(Rows(A), Cols(A), at), Abs(d))

\* ---- polynomials in the jitter: <<c0, c1, ...>> is c0 + c1*e + c2*e^2 ...
PolyAdd(p, q) ==
    <<>> \o [k \in 1..Max(Len(p), Len(q)) |->
        (IF k <= Len(p) THEN p[k] ELSE 0) + (IF k <= Len(q) THEN q[k] ELSE 0)]
PolyMul(p, q) ==
    <<>> \o [k \in 1..(Len(p) + Len(q) - 1) |->
        SeqSum([i \in 1..Len(p) |->
                   IF k - i + 1 >= 1 /\ k - i + 1 <= Len(q)
                   THEN p[i] * q[k - i + 1] ELSE 0])]
PolyNeg(p) == <<>> \o [k \in 1..Len(p) |-> -p[k]]

RECURSIVE PolySum(_)
PolySum(ps) == IF Len(ps) = 1 THEN ps[1] ELSE PolyAdd(ps[1], PolySum(Tail(ps)))

RECURSIVE PolyDet(_)
PolyDet(a) ==
    IF Len(a) = 1 THEN a[1][1]
    ELSE PolySum(<<>> \o [j \in 1..Len(a) |->
                    LET t == PolyMul(a[1][j], PolyDet(Minor(a, 1, j)))
                    IN  IF j % 2 = 1 THEN t ELSE PolyNeg(t)])

RECURSIVE PolySign(_)
\* the sign of p at a jitter far below the quantum of the coefficients:
\* that of its lowest-order coefficient that is not 0
PolySign(p) ==
    IF p = <<>> THEN 0
    ELSE IF Head(p) > 0 THEN 1
    ELSE IF Head(p) < 0 THEN -1
    ELSE PolySign(Tail(p))

\* an entry x / den as (kernel part) + (jitter part) * e
SplitJitter(x, den) ==
    IF den > Scale /\ den % Scale = 0
    THEN <<x \div (den \div Scale), x % (den \div Scale)>>
    ELSE <<x * (Scale \div den), 0>>

\* every leading principal minor is positive
PositiveDefinite(A) ==
    LET split(i, j) == SplitJitter(A.a[i][j], A.den)
    IN  \A k \in 1..Rows(A) : PolySign(PolyDet(Mat(k, k, split))) = 1

\* cp.linalg.cholesky(x): the lower-triangular factor of x
Cholesky(A, es) ==
    IF IsErr(A) THEN A
    ELSE IF A.nd # 2 \/ Rows(A) # Cols(A) THEN Raise("LinAlgError")
    ELSE IF A.nan \/ ~PositiveDefinite(A)
         THEN IF es = "raise" THEN Raise("LinAlgError")
              ELSE NaNArr(2, Rows(A), Cols(A))
    ELSE [A EXCEPT !.kind = "chol"]

\* scipy.spatial.distance.cdist(xa, xb): Euclidean distances, to 1/XDen
CDist(A, B) ==
    IF IsErr(A) THEN A
    ELSE IF IsErr(B) THEN B
    ELSE IF A.nd # 2 \/ B.nd # 2 \/ Cols(A) # Cols(B) THEN Raise("ValueError")
    ELSE LET l == Lcm(A.den, B.den)
             u == XDen \div l
             diff(i, j, k) == u * (A.a[i][k] * (l \div A.den)
                                   - B.a[j][k] * (l \div B.den))
             at(i, j) ==
                 RoundSqrt(SeqSum([k \in 1..Cols(A) |->
                                      diff(i, j, k) * diff(i, j, k)]))
         IN  IF A.nan \/ B.nan THEN NaNArr(2, Rows(A), Rows(B))
             ELSE Arr(2, Mat(Rows(A), Rows(B), at), XDen)

\* mutant of sq_exp: x2 is not transposed
sq_expNoTranspose(x1, x2) == ExpNegHalf(Power2(Sub(x1, x2)))
\* def sq_exp(x1, x2)
sq_exp(x1, x2) ==
    LET diff == Sub(x1, Transpose(x2))
        sqdiff == Power2(diff)
    IN  ExpNegHalf(sqdiff)

\* mutant of sq_exp2d: the distance is not squared
sq_exp2dNoSquare(x1, x2) == ExpNegHalf(CDist(x1, x2))
\* def sq_exp2d(x1, x2)
sq_exp2d(x1, x2) ==
    LET d == CDist(x1, x2)
    IN  ExpNegHalf(Power2(d))

\* cp.random.normal(size=(r, c))
RandomNormal(r, c) == RandArr(2, r, c)

\* cp.dot(l, z) for a Cholesky factor l and random draws z
Dot(A, B) ==
    IF IsErr(A) THEN A
    ELSE IF IsErr(B) THEN B
    ELSE IF Cols(A) # Rows(B) THEN Raise("ValueError")
    ELSE [RandArr(2, Rows(A), Cols(B)) EXCEPT !.nan = A.nan \/ B.nan]

\* mutant of MultivariateNormal: one column per draw
MultivariateNormalByColumn(mean, cov, size) ==
    IF IsErr(mean) THEN mean
    ELSE IF IsErr(cov) THEN cov
    ELSE IF mean.nd # 1 \/ cov.nd # 2 \/ Rows(cov) # Cols(cov)
            \/ Cols(mean) # Rows(cov)
         THEN Raise("ValueError")
    ELSE [RandArr(2, Cols(mean), size) EXCEPT !.nan = mean.nan \/ cov.nan]
\* cp.random.multivariate_normal(mean, cov, size=size): size rows, one
\* draw each; the library's own factorization of cov is not modelled
MultivariateNormal(mean, cov, size) ==
    IF IsErr(mean) THEN mean
    ELSE IF IsErr(cov) THEN cov
    ELSE IF mean.nd # 1 \/ cov.nd # 2 \/ Rows(cov) # Cols(cov)
            \/ Cols(mean) # Rows(cov)
         THEN Raise("ValueError")
    ELSE [RandArr(2, size, Cols(mean)) EXCEPT !.nan = mean.nan \/ cov.nan]

\* cp.linspace(-c, c, k).reshape(-1, 1) for k = 1, 2, 3 (whole locations)
Linspace(c, k) ==
    LET at(i, j) == IF k = 1 THEN -c * XDen
                    ELSE -c * XDen + ((i - 1) * 2 * c * XDen) \div (k - 1)
    IN  Array2(Mat(k, 1, at), XDen)

\* cp.meshgrid(x, x) flattened and stacked: x_spts.T, the k*k grid points
MeshPoints(x) ==
    IF IsErr(x) THEN x
    ELSE LET k == Rows(x)
             at(i, j) == IF j = 1 THEN x.a[((i - 1) % k) + 1][1]
                         ELSE x.a[((i - 1) \div k) + 1][1]
         IN  Arr(2, Mat(k * k, 2, at), x.den)

\* ------------------------------------------------------------ the notebook
\* sin of a whole number of units, in 1/Scale (SinTab[w] = round(100 sin w))
SinTab == <<84, 91, 14, -76, -96>>
SinEntry(x, den) ==
    LET w == RoundDiv(Abs(x), den)
        v == IF w = 0 THEN 0 ELSE SinTab[((w - 1) % Len(SinTab)) + 1]
    IN  IF x < 0 THEN -v ELSE v
\* cp.sin(x), elementwise
Sin(A) ==
    IF IsErr(A) \/ A.nan THEN A
    ELSE LET at(i, j) == SinEntry(A.a[i][j], A.den)
         IN  Arr(A.nd, Mat(Rows(A), Cols(A), at), Scale)

\* mutant of true_function_1d: the values come back as a flat vector
true_function_1dFlat(x) == Flatten(Sin(x))
\* x = x + 1E-10; cp.sin(x): the shift is far below the quantum 1/XDen
true_function_1d(x) == Sin(x)
\* cp.sin(x1) + cp.sin(x2)
true_function(x1, x2) == Add(Sin(x1), Sin(x2))

\* x[:, j] (j counted from 0)
ColumnOf(A, j) ==
    IF IsErr(A) THEN A
    ELSE IF A.nd # 2 \/ j >= Cols(A) THEN Raise("IndexError")
    ELSE [A EXCEPT !.nd = 1, !.a = <<(<<>> \o [i \in 1..Rows(A) |-> A.a[i][j + 1]])>>]

\* The global names of the kernel.  A name that is not bound yet reads as
\* the NameError it raises.
Unbound == Raise("NameError")
Names == {"x_train", "K", "eps", "L", "f_prior", "x_samp", "f_samp", "K_samp",
          "L_samp", "x_s", "x_spts", "K_ss", "K_s", "mu_cond", "sig_cond",
          "f_posterior"}
FreshNamespace == [v \in Names |-> Unbound]

\* a running cell: the namespace g and the global n (0: not bound), the
\* exception that stopped it ("" if none), the statement it is at, and the
\* factorizations and sampler calls it has made
Frame(g, k) == [log |-> <<>>, g |-> g, n |-> k, exc |-> "", line |-> 0]

\* name = value
Bind(st, name, val) ==
    IF IsErr(val) THEN [st EXCEPT !.exc = val.err]
    ELSE [st EXCEPT !.g[name] = val]
\* the same, after a library call fn(arg)
BindCall(st, name, val, fn, arg) ==
    IF IsErr(arg) THEN [st EXCEPT !.exc = arg.err]
    ELSE Bind([st EXCEPT !.log = Append(@, [fn |-> fn, arg |-> arg])], name, val)
\* eye(n), linspace(-c, c, n) for the global n
EyeN(k) == IF k = 0 THEN Unbound ELSE Eye(k)
LinspaceN(c, k) == IF k = 0 THEN Unbound ELSE Linspace(c, k)

\* K_s.T @ cp.linalg.inv(K_samp) @ y
CondMean(Ks, Ksamp, y, es) == MatMul(MatMul(Transpose(Ks), Inv(Ksamp, es)), y)
\* K_ss - K_s.T @ cp.linalg.inv(K_samp) @ K_s
CondCov(Kss, Ks, Ksamp, es) ==
    Sub(Kss, MatMul(MatMul(Transpose(Ks), Inv(Ksamp, es)), Ks))

\* The cells, statement by statement; a statement is named by its line in
\* src/unnamed/part_000.  in: the literals of the cell's text (X the sampled
\* locations, c and k the grid linspace(-c, c, k), size the number of draws).
KernelLines == <<134, 135>>
PriorLines == <<167, 168, 169, 171>>
Post2DLines == <<344, 346, 348, 350, 351, 353, 356, 357, 358, 360, 361, 364>>
\* mutant of Post1DLines: the cell does not set n before it reads it
Post1DLinesStaleN == <<187, 188, 189, 190, 191, 193, 194, 195, 197, 198, 200>>
Post1DLines == <<186, 187, 188, 189, 190, 191, 193, 194, 195, 197, 198, 200>>

Stmt(line, st, in, es) ==
    LET g == st.g
    IN  CASE line = 134 -> [st EXCEPT !.n = in.k]
        []   line = 135 -> Bind(st, "x_train", LinspaceN(in.c, st.n))
        []   line = 167 -> Bind(st, "K", sq_exp(g.x_train, g.x_train))
        []   line = 168 -> Bind(st, "eps", TimesJitter(EyeN(st.n)))
        []   line = 169 ->
                 BindCall(st, "L", Cholesky(Add(g.K, g.eps), es),
                          "cholesky", Add(g.K, g.eps))
        []   line = 171 ->
                 Bind(st, "f_prior",
                      IF st.n = 0 THEN Unbound
                      ELSE Dot(g.L, RandomNormal(st.n, in.size)))
        []   line = 186 -> [st EXCEPT !.n = in.k]
        []   line = 187 -> Bind(st, "x_samp", in.X)
        []   line = 188 -> Bind(st, "f_samp", true_function_1d(g.x_samp))
        []   line = 189 -> Bind(st, "K_samp", sq_exp(g.x_samp, g.x_samp))
        []   line = 190 -> Bind(st, "eps", TimesJitter(Eye(PyLen(g.x_samp))))
        []   line = 191 ->
                 BindCall(st, "L_samp", Cholesky(Add(g.K_samp, g.eps), es),
                          "cholesky", Add(g.K_samp, g.eps))
        []   line = 193 -> Bind(st, "x_s", LinspaceN(in.c, st.n))
        []   line = 194 -> Bind(st, "K_ss", sq_exp(g.x_s, g.x_s))
        []   line = 195 -> Bind(st, "K_s", sq_exp(g.x_samp, g.x_s))
        []   line = 197 ->
                 BindCall(st, "mu_cond", CondMean(g.K_s, g.K_samp, g.f_samp, es),
                          "inv", g.K_samp)
        []   line = 198 ->
                 BindCall(st, "sig_cond", CondCov(g.K_ss, g.K_s, g.K_samp, es),
                          "inv", g.K_samp)
        []   line = 200 ->
                 BindCall(st, "f_posterior",
                          MultivariateNormal(Flatten(g.mu_cond), g.sig_cond, in.size),
                          "multivariate_normal", g.sig_cond)
        []   line = 344 -> Bind(st, "x_samp", in.X)
        []   line = 346 ->
                 Bind(st, "f_samp",
                      true_function(ColumnOf(g.x_samp, 0), ColumnOf(g.x_samp, 1)))
        []   line = 348 -> Bind(st, "K_samp", sq_exp2d(g.x_samp, g.x_samp))
        []   line = 350 -> Bind(st, "eps", TimesJitter(Eye(PyLen(g.x_samp))))
        []   line = 351 ->
                 BindCall(st, "L_samp", Cholesky(Add(g.K_samp, g.eps), es),
                          "cholesky", Add(g.K_samp, g.eps))
        []   line = 353 -> [st EXCEPT !.n = in.k]
        []   line = 356 ->
                 Bind(st, "x_spts", Transpose(MeshPoints(LinspaceN(in.c, st.n))))
        []   line = 357 ->
                 Bind(st, "K_ss", sq_exp2d(Transpose(g.x_spts), Transpose(g.x_spts)))
        []   line = 358 -> Bind(st, "K_s", sq_exp2d(g.x_samp, Transpose(g.x_spts)))
        []   line = 360 ->
                 BindCall(st, "mu_cond",
                          CondMean(g.K_s, g.K_samp, Flatten(g.f_samp), es),
                          "inv", g.K_samp)
        []   line = 361 ->
                 BindCall(st, "sig_cond", CondCov(g.K_ss, g.K_s, g.K_samp, es),
                          "inv", g.K_samp)
        []   line = 364 ->
                 BindCall(st, "f_posterior",
                          MultivariateNormal(g.mu_cond, g.sig_cond, in.size),
                          "multivariate_normal", g.sig_cond)

\* run the statements in order; an exception ends the cell
RECURSIVE RunRange(_, _, _, _, _, _)
\* the statements lines[lo..hi] in order, the first half and then the rest;
\* a statement is not reached once an exception is raised
RunRange(lines, lo, hi, st, in, es) ==
    IF lo > hi \/ st.exc # "" THEN st
    ELSE IF lo = hi
         THEN [Stmt(lines[lo], st, in, es) EXCEPT !.line = lines[lo]]
    ELSE RunRange(lines, ((lo + hi) \div 2) + 1, hi,
                  RunRange(lines, lo, (lo + hi) \div 2, st, in, es), in, es)

RunLines(lines, st, in, es) == RunRange(lines, 1, Len(lines), st, in, es)

\* ------------------------------------------------------------ inputs
\* whole locations -MaxCoord..MaxCoord and Tiny (one unit of 1/XDen)
Locations == {c * XDen : c \in (-MaxCoord)..MaxCoord} \cup {1}
PlanePoints == <<<<0, 0>>, <<XDen, 0>>, <<XDen, XDen>>>>

SortedSeqs(S, k) == {s \in [1..k -> S] : \A i \in 1..(k - 1) : s[i] <= s[i + 1]}

\* cp.array([...]).reshape(-1, 1): m locations on the line, as a column
ColumnOfLocations(s) == Array2(<<>> \o [i \in 1..Len(s) |-> <<s[i]>>], XDen)
TrainColumns ==
    {ColumnOfLocations(s) : s \in UNION {SortedSeqs(Locations, k) : k \in 1..MaxTrain}}
\* cp.array([[.., ..], ...]): m points of the plane
TrainPlanes ==
    {Array2(<<>> \o [i \in 1..Len(s) |-> PlanePoints[s[i]]], XDen) :
        s \in UNION {SortedSeqs(1..Len(PlanePoints), k) : k \in 1..MaxTrain}}

\* the smaller inputs of a whole session
SessionColumns ==
    {ColumnOfLocations(s) : s \in UNION {SortedSeqs({0, XDen}, k) : k \in 1..MaxTrain}}
SessionPlanes ==
    {Array2(<<>> \o [i \in 1..k |-> PlanePoints[i]], XDen) : k \in 1..MaxTrain}

Input(X, c, k) == [c |-> c, k |-> k, size |-> NumSamples, X |-> X]
NoInput == Input(Unbound, 0, 0)

\* ------------------------------------------------- the survival notebook
\* Its cells are run from top to bottom.  df is the table of patients, one
\* record [time, event] each, with whole times and event 0 or 1 (after
\* astype(int)); ran counts the cells run; a matrix is a tuple of rows.
interval_length == 3
FreshNotebook ==
    [ran |-> 0, df |-> <<>>, interval_bounds |-> <<>>, n_intervals |-> 0,
     last_period |-> <<>>, death |-> <<>>, exposure |-> <<>>]
Tables ==
    UNION {[1..k -> [time : 0..MaxTime, event : {0, 1}]] : k \in 1..MaxPatients}

\* np.arange(0, stop, step): 0, step, 2 * step, ... below stop
Arange(stop, step) ==
    <<>> \o [k \in 1..((stop + step - 1) \div step) |-> (k - 1) * step]
\* df.time.max()
TimeMax(df) == CHOOSE t \in {df[i].time : i \in 1..Len(df)} :
                   \A i \in 1..Len(df) : df[i].time <= t
\* a[j] for a Python index j (from 0; a negative one counts from the end)
PyIndex(j, size) == IF j < 0 THEN j + size ELSE j
Item(a, j) == a[PyIndex(j, Len(a)) + 1]

\* np.arange(0, df.time.max() + interval_length + 1, interval_length)
interval_bounds(df) ==
    Arange(TimeMax(df) + interval_length + 1, interval_length)
\* mutant of last_period: the time is not shifted by 0.01
last_periodNoShift(df) ==
    <<>> \o [i \in 1..Len(df) |-> df[i].time \div interval_length]
\* np.floor((df.time - 0.01) / interval_length), in hundredths (\div floors)
last_period(df) ==
    <<>> \o [i \in 1..Len(df) |->
                (100 * df[i].time - 1) \div (100 * interval_length)]
\* death = np.zeros((n_patients, n_intervals));
\* death[patients, last_period] = df.event.values
death(df, n_intervals, last) ==
    <<>> \o [i \in 1..Len(df) |->
        <<>> \o [j \in 1..n_intervals |->
            IF j - 1 = PyIndex(last[i], n_intervals) THEN df[i].event ELSE 0]]
\* np.greater_equal.outer(df.time.values, interval_bounds[:-1])
\*     * interval_length;
\* exposure[patients, last_period] = df.time - interval_bounds[last_period]
exposure(df, bounds, last) ==
    <<>> \o [i \in 1..Len(df) |->
        <<>> \o [j \in 1..(Len(bounds) - 1) |->
            IF j - 1 = PyIndex(last[i], Len(bounds) - 1)
            THEN df[i].time - Item(bounds, last[i])
            ELSE IF df[i].time >= bounds[j] THEN interval_length ELSE 0]]

\* ------------------------------------------------------------ the session
\* ns, n: the kernel's globals; cell, arg: the cell run last and the literals
\* in its text; exc, line, log: how it ended; callers: the concurrent
\* callers of SpecConc; kern: the kernel call of SpecKernel
VARIABLES ns, n, exc, line, log, cell, arg, errstate, execution_count,
          callers, kern, nb

vars == <<ns, n, exc, line, log, cell, arg, errstate, execution_count,
          callers, kern, nb>>

\* a kernel that has run no cell
Restarted ==
    /\ ns = FreshNamespace
    /\ n = 0
    /\ exc = ""
    /\ line = 0
    /\ log = <<>>
    /\ cell = "none"
    /\ arg = NoInput
    /\ errstate \in ErrStates
    /\ execution_count = 0
    /\ nb = FreshNotebook

Init ==
    /\ Restarted
    /\ callers = <<>>
    /\ kern = <<>>

RunCell(name, lines, in, most) ==
    /\ execution_count < most
    /\ \E st \in {RunLines(lines, Frame(ns, n), in, errstate)} :
        /\ ns' = st.g
        /\ n' = st.n
        /\ exc' = st.exc
        /\ line' = st.line
        /\ log' = st.log
    /\ cell' = name
    /\ arg' = in
    /\ execution_count' = execution_count + 1
    /\ UNCHANGED <<errstate, callers, kern, nb>>

\* the cell of lines 134-151: n and x_train
KernelCell(c, k) == RunCell("kernel", KernelLines, Input(Unbound, c, k), MaxCells)
\* the cell of lines 167-173: draw from the prior
PriorCell == RunCell("prior", PriorLines, NoInput, MaxCells)
\* the cell of lines 182-207: the posterior on the line
Posterior1D(X, c, k, most) == RunCell("posterior1d", Post1DLines, Input(X, c, k), most)
\* the cell of lines 344-364: the posterior on the plane
Posterior2D(X, c, k, most) == RunCell("posterior2d", Post2DLines, Input(X, c, k), most)

Next ==
    \/ \E c \in 1..MaxCoord, k \in 1..MaxTrain : KernelCell(c, k)
    \/ PriorCell
    \/ \E X \in SessionColumns, k \in 1..MaxGrid : Posterior1D(X, 1, k, MaxCells)
    \/ \E X \in SessionPlanes, k \in 1..MaxGrid : Posterior2D(X, 1, k, MaxCells)

Spec == Init /\ [][Next]_vars

\* the posterior cells alone, over the wider inputs
NextPosterior ==
    \/ \E X \in TrainColumns \cup TrainPlanes, c \in 1..MaxCoord, k \in 1..MaxQuery :
           Posterior1D(X, c, k, MaxPosteriors)
    \/ \E X \in TrainColumns \cup TrainPlanes, c \in 1..MaxCoord, k \in 1..MaxGrid :
           Posterior2D(X, c, k, MaxPosteriors)

SpecPosterior == Init /\ [][NextPosterior]_vars

\* ------------------------------------------------------------ two callers
\* Two callers run a posterior cell each, statement by statement, on the
\* one namespace of the kernel; nothing orders their statements.
ConcCalls ==
    {[in |-> Input(ColumnOfLocations(<<x>>), 1, k), lines |-> Post1DLines] :
        x \in {0, XDen}, k \in 1..MaxGrid}
    \cup {[in |-> Input(X, 1, 1), lines |-> Post2DLines] :
            X \in {Y \in SessionPlanes : Rows(Y) = 1}}

Caller(call) ==
    [exc |-> "", in |-> call.in, mu_cond |-> Unbound, sig_cond |-> Unbound,
     lines |-> call.lines, pc |-> 1]

InitConc ==
    /\ Restarted
    /\ \E a, b \in ConcCalls :
        /\ a.in.X # b.in.X
        /\ callers = <<Caller(a), Caller(b)>>
    /\ kern = <<>>

Done(c) == callers[c].exc # "" \/ callers[c].pc > Len(callers[c].lines)

\* caller c runs its next statement; at its last one it holds the mean and
\* the covariance the namespace has then
Step(c) ==
    /\ ~Done(c)
    /\ \E st \in {Stmt(callers[c].lines[callers[c].pc], Frame(ns, n),
                       callers[c].in, errstate)} :
        /\ ns' = st.g
        /\ n' = st.n
        /\ callers' =
             [callers EXCEPT
                ![c].pc = @ + 1,
                ![c].exc = st.exc,
                ![c].mu_cond = IF callers[c].pc = Len(callers[c].lines)
                               THEN st.g.mu_cond ELSE @,
                ![c].sig_cond = IF callers[c].pc = Len(callers[c].lines)
                                THEN st.g.sig_cond ELSE @]
    /\ UNCHANGED <<exc, line, log, cell, arg, errstate, execution_count, kern,
                   nb>>

NextConc == \E c \in DOMAIN callers : Step(c)

SpecConc == InitConc /\ [][NextConc]_vars

\* ------------------------------------------------------------ kernel calls
KernelColumns ==
    {ColumnOfLocations(s) : s \in UNION {[1..k -> Locations] : k \in 1..MaxTrain}}

\* one call of each kernel on the same pair of inputs
KernelCall(x1, x2) ==
    /\ kern = <<>>
    /\ kern' = [x1 |-> x1, x2 |-> x2,
                sq_exp |-> sq_exp(x1, x2), sq_exp2d |-> sq_exp2d(x1, x2)]
    /\ UNCHANGED <<ns, n, exc, line, log, cell, arg, errstate, execution_count,
                   callers, nb>>

NextKernel == \E x1, x2 \in KernelColumns \cup TrainPlanes : KernelCall(x1, x2)

SpecKernel == Init /\ [][NextKernel]_vars

\* ------------------------------------------------------ survival cells
\* df = datasets.get_rdataset("mastectomy", "HSAUR").data; event as int
LoadCell(table) ==
    /\ nb.ran = 0
    /\ nb' = [nb EXCEPT !.ran = 1, !.df = table]
    /\ UNCHANGED <<ns, n, exc, line, log, cell, arg, errstate, execution_count,
                   callers, kern>>
\* interval_bounds, n_intervals
IntervalsCell ==
    /\ nb.ran = 1
    /\ nb' = [nb EXCEPT !.ran = 2,
                        !.interval_bounds = interval_bounds(nb.df),
                        !.n_intervals = Len(interval_bounds(nb.df)) - 1]
    /\ UNCHANGED <<ns, n, exc, line, log, cell, arg, errstate, execution_count,
                   callers, kern>>
\* last_period, death
DeathCell ==
    /\ nb.ran = 2
    /\ nb' = [nb EXCEPT !.ran = 3,
                        !.last_period = last_period(nb.df),
                        !.death = death(nb.df, nb.n_intervals, last_period(nb.df))]
    /\ UNCHANGED <<ns, n, exc, line, log, cell, arg, errstate, execution_count,
                   callers, kern>>
\* exposure
ExposureCell ==
    /\ nb.ran = 3
    /\ nb' = [nb EXCEPT !.ran = 4,
                        !.exposure = exposure(nb.df, nb.interval_bounds,
                                              nb.last_period)]
    /\ UNCHANGED <<ns, n, exc, line, log, cell, arg, errstate, execution_count,
                   callers, kern>>

NextSurvival ==
    \/ \E table \in Tables : LoadCell(table)
    \/ IntervalsCell
    \/ DeathCell
    \/ ExposureCell

SpecSurvival == Init /\ [][NextSurvival]_vars

\* ------------------------------------------------------------ properties
IsColumn(X) == ~IsErr(X) /\ X.nd = 2 /\ Cols(X) = 1
IsPlane(X) == ~IsErr(X) /\ X.nd = 2 /\ Cols(X) = 2
Posterior == cell \in {"posterior1d", "posterior2d"}
\* the cell has computed mean and covariance: it is at its sampling statement
Returned ==
    \/ cell = "posterior1d" /\ line = 200
    \/ cell = "posterior2d" /\ line = 364
\* the number of query points of the cell
NumQuery == IF cell = "posterior1d" THEN n ELSE n * n
CellLines == IF cell = "posterior1d" THEN Post1DLines ELSE Post2DLines
\* the training inputs fit the cell: points of the line, of the plane
Fits == IF cell = "posterior1d" THEN IsColumn(arg.X) ELSE IsPlane(arg.X)
Distinct(X) == \A i, j \in 1..Rows(X) : i # j => X.a[i] # X.a[j]
Duplicated(X) == ~Distinct(X)
\* locations of the line at least 1 apart
Separated(X) ==
    \A i, j \in 1..Rows(X) : i # j => Abs(X.a[i][1] - X.a[j][1]) >= X.den
\* | x/xd - y/yd | <= 1/tol
Close(x, xd, y, yd, tol) == Abs(x * yd - y * xd) <= (xd * yd) \div tol

\* at every query point that is a training point the mean is the observed
\* value and the variance is 0, within 1e-4
Interpolates ==
    \A i \in 1..Rows(ns.x_samp), j \in 1..Rows(ns.x_s) :
        (ns.x_s.a[j][1] * ns.x_samp.den = ns.x_samp.a[i][1] * ns.x_s.den) =>
            /\ Close(ns.mu_cond.a[j][1], ns.mu_cond.den,
                     ns.f_samp.a[i][1], ns.f_samp.den, 10000)
            /\ Close(ns.sig_cond.a[j][j], ns.sig_cond.den, 0, 1, 10000)
Valid == ~ns.mu_cond.nan /\ ~ns.sig_cond.nan

\* C1: for every training set with distinct locations the posterior on the
\* line returns, at a query point that is a training point, the observed
\* value as mean and 0 as variance (within 1e-4).
C1_AsStated ==
    (cell = "posterior1d" /\ IsColumn(arg.X) /\ Distinct(arg.X)) =>
        (line = 200 /\ Valid /\ Interpolates)

\* C1 for the training sets whose locations lie at least 1 apart, which
\* leave K_samp invertible as it is: the part of C1 the cell does meet.
C1_Interpolation ==
    (cell = "posterior1d" /\ IsColumn(arg.X) /\ Separated(arg.X)) =>
        (line = 200 /\ Valid /\ Interpolates)

C1_Witness ==
    /\ cell = "posterior1d" /\ line = 200 /\ Valid
    /\ IsColumn(arg.X) /\ Rows(arg.X) = 2 /\ Separated(arg.X)
    /\ \E i \in 1..Rows(ns.x_samp), j \in 1..Rows(ns.x_s) :
        /\ ns.x_s.a[j][1] * ns.x_samp.den = ns.x_samp.a[i][1] * ns.x_s.den
        /\ ns.f_samp.a[i][1] # 0
        /\ ns.mu_cond.a[j][1] * ns.f_samp.den = ns.f_samp.a[i][1] * ns.mu_cond.den

\* C2 as the spec states it: in both cells the mean is a flat vector of n
\* entries, shape (n,), and the covariance has shape (n, n), n the number of
\* query points.
C2_AsStated ==
    (Returned /\ Fits) =>
        /\ Shape(ns.mu_cond) = <<NumQuery>>
        /\ Shape(ns.sig_cond) = <<NumQuery, NumQuery>>

\* C2, amended: the covariance has shape (n, n) in both cells; the mean is a
\* column of shape (n, 1) in the cell on the line and a flat vector of shape
\* (n,) in the cell on the plane.
C2_Shapes ==
    (Returned /\ Fits) =>
        /\ Shape(ns.mu_cond) =
               IF cell = "posterior1d" THEN <<NumQuery, 1>> ELSE <<NumQuery>>
        /\ Shape(ns.sig_cond) = <<NumQuery, NumQuery>>

C2_Witness ==
    /\ cell = "posterior1d" /\ exc = "" /\ Fits
    /\ Rows(arg.X) = 2 /\ n = 3
    /\ Shape(ns.mu_cond) = <<3, 1>>

\* C3: when the training points and the query points differ in
\* dimensionality the posterior computation ends in an error before any
\* mean or covariance is computed.  (The observed values are computed from
\* the locations, so their numbers cannot differ.)
C3_ShapeMismatch == (Posterior /\ ~Fits) => (exc # "" /\ ~Returned)

\* C4: with a training location given twice the posterior computation
\* raises, or else (the jitter having resolved the singularity) returns
\* numbers; it never returns a degenerate result silently.
C4_JitterSensitivity ==
    (Posterior /\ Fits /\ Duplicated(arg.X)) =>
        \/ exc = "LinAlgError"
        \/ exc = "" /\ Valid

\* C5: the covariance the posterior returns is symmetric within 1e-8 and has
\* no diagonal entry below -1e-8.
C5_CovarianceValid ==
    Returned =>
        /\ ~ns.sig_cond.nan
        /\ Rows(ns.sig_cond) = Cols(ns.sig_cond)
        /\ \A i, j \in 1..Rows(ns.sig_cond) :
               Abs(ns.sig_cond.a[i][j] - ns.sig_cond.a[j][i])
                   <= ns.sig_cond.den \div 100000000
        /\ \A i \in 1..Rows(ns.sig_cond) :
               ns.sig_cond.a[i][i] >= -(ns.sig_cond.den \div 100000000)

\* what the cell run last computes in a kernel that has run nothing else
Alone == RunLines(CellLines, Frame(FreshNamespace, 0), arg, errstate)

\* C6: whatever cells ran before, a posterior cell ends as it does in a
\* fresh kernel, with the same mean and covariance, and leaves the training
\* locations as they were given.
C6_Stateless ==
    Posterior =>
        \E alone \in {Alone} :
            /\ exc = alone.exc
            /\ line = alone.line
            /\ Returned =>
                /\ ns.mu_cond = alone.g.mu_cond
                /\ ns.sig_cond = alone.g.sig_cond
                /\ ns.x_samp = arg.X

C6_Witness ==
    /\ cell = "posterior1d" /\ exc = "" /\ execution_count = 3
    /\ ~IsErr(ns.x_train) /\ ~IsErr(ns.x_spts)
    /\ n # Rows(ns.x_train)

\* a factorization the cell asked for cannot be carried out: the matrix
\* handed to inv is singular, the one handed to cholesky not positive definite
Square(A) == A.nd = 2 /\ Rows(A) = Cols(A) /\ ~A.nan
FailedFactorization ==
    \E i \in 1..Len(log) :
        /\ Square(log[i].arg)
        /\ \/ log[i].fn = "inv" /\ Det(log[i].arg.a) = 0
           \/ log[i].fn = "cholesky" /\ ~PositiveDefinite(log[i].arg)
Count(fn) == Cardinality({i \in 1..Len(log) : log[i].fn = fn})

\* C7: a cell whose names are bound ends in success or in one error, a
\* shape error or a failed factorization; a failed factorization is raised,
\* and no factorization is tried again with a larger jitter.
C7_AtomicOutcome ==
    (cell # "none" /\ exc # "NameError") =>
        /\ exc \in {"", "ValueError", "IndexError", "LinAlgError"}
        /\ FailedFactorization => exc = "LinAlgError"
        /\ Count("cholesky") <= 1

\* the sampler call of the posterior cell
Sampler == log[Len(log)]

\* C8 as the spec states it: the posterior covariance plus the jitter is
\* factorized by cholesky before sampling, and the draws have shape
\* (n, num_samples).
C8_AsStated ==
    (Posterior /\ exc = "") =>
        /\ \E i \in 1..Len(log) :
               /\ log[i].fn = "cholesky"
               /\ log[i].arg = Add(ns.sig_cond, TimesJitter(Eye(NumQuery)))
        /\ Shape(ns.f_posterior) = <<NumQuery, NumSamples>>

\* C8, amended: the posterior cell hands the mean and the covariance, as
\* computed and with no jitter, to multivariate_normal; the only cholesky
\* call is the one on K_samp + eps; the draws have shape (num_samples, n).
C8_PosteriorSampling ==
    (Posterior /\ exc = "") =>
        /\ Sampler.fn = "multivariate_normal"
        /\ Sampler.arg = ns.sig_cond
        /\ \A i \in 1..Len(log) :
               log[i].fn = "cholesky" => log[i].arg = Add(ns.K_samp, ns.eps)
        /\ Shape(ns.f_posterior) = <<NumSamples, NumQuery>>

C8_Witness ==
    /\ cell = "posterior1d" /\ exc = "" /\ n = 2
    /\ Shape(ns.f_posterior) = <<NumSamples, 2>>
    /\ Count("cholesky") = 1

\* C9: each of two callers running concurrently on disjoint inputs ends as
\* it would alone, with the mean and the covariance it would get alone.
C9_Reentrant ==
    \A c \in DOMAIN callers :
        Done(c) =>
            \E alone \in {RunLines(callers[c].lines, Frame(FreshNamespace, 0),
                                   callers[c].in, errstate)} :
                /\ callers[c].exc = alone.exc
                /\ alone.exc = "" =>
                    /\ callers[c].mu_cond = alone.g.mu_cond
                    /\ callers[c].sig_cond = alone.g.sig_cond

\* C10: on columns of m and n locations of the line sq_exp and sq_exp2d
\* return the same m-by-n matrix.
C10_DimensionIndependence ==
    (kern # <<>> /\ IsColumn(kern.x1) /\ IsColumn(kern.x2)) =>
        /\ ~IsErr(kern.sq_exp)
        /\ Shape(kern.sq_exp) = <<Rows(kern.x1), Rows(kern.x2)>>
        /\ kern.sq_exp2d = kern.sq_exp

C10_Witness ==
    /\ kern # <<>> /\ IsColumn(kern.x1) /\ IsColumn(kern.x2)
    /\ Rows(kern.x1) = 2 /\ Rows(kern.x2) = 2
    /\ kern.sq_exp2d = kern.sq_exp
    /\ kern.sq_exp.a[1][1] # kern.sq_exp.a[1][2]
    /\ kern.sq_exp.a[1][1] # kern.sq_exp.a[2][1]

\* K is a kernel matrix on the m points of X and equals its transpose
Symmetric(K, X) ==
    /\ ~IsErr(K) /\ ~K.nan /\ K.nd = 2
    /\ Rows(K) = Rows(X) /\ Cols(K) = Rows(X)
    /\ \A i, j \in 1..Rows(X) : K.a[i][j] = K.a[j][i]

\* C11: for every set X of points, sq_exp(X, X) on points of the line and
\* sq_exp2d(X, X) on points of the line or the plane is a square matrix with
\* K[i, j] = K[j, i] for all i, j.
C11_KernelSymmetry ==
    (kern # <<>> /\ kern.x1 = kern.x2) =>
        /\ IsColumn(kern.x1) => Symmetric(kern.sq_exp, kern.x1)
        /\ Symmetric(kern.sq_exp2d, kern.x1)

C11_Witness ==
    /\ kern # <<>> /\ kern.x1 = kern.x2
    /\ IsColumn(kern.x1) /\ Rows(kern.x1) = 2
    /\ kern.sq_exp.a[1][2] = kern.sq_exp.a[2][1]
    /\ kern.sq_exp.a[1][2] # kern.sq_exp.a[1][1]
    /\ kern.sq_exp2d.a[1][2] = kern.sq_exp2d.a[2][1]
    /\ kern.sq_exp2d.a[1][2] # kern.sq_exp2d.a[1][1]

\* the interval (from 0) that holds t: interval_bounds[j] < t <= interval_bounds[j+1]
Holds(j, t) ==
    /\ j \in 0..(nb.n_intervals - 1)
    /\ nb.interval_bounds[j + 1] < t
    /\ t <= nb.interval_bounds[j + 2]
RowSum(row) == SumRange(row, 1, Len(row))

\* C12: for every patient with a whole time t >= 1 the row of the exposure
\* matrix sums to t: interval_length in each interval wholly before t, t
\* minus the lower bound in the interval that holds t, and 0 in every later
\* interval, also when t is a multiple of interval_length.
C12_ExposureAccounting ==
    nb.ran = 4 =>
        \A i \in 1..Len(nb.df) :
            nb.df[i].time >= 1 =>
                /\ RowSum(nb.exposure[i]) = nb.df[i].time
                /\ \A j \in 0..(nb.n_intervals - 1) :
                       nb.exposure[i][j + 1] =
                           IF nb.interval_bounds[j + 2] < nb.df[i].time
                           THEN interval_length
                           ELSE IF Holds(j, nb.df[i].time)
                                THEN nb.df[i].time - nb.interval_bounds[j + 1]
                           ELSE 0

\* What holds of the exposure matrix: the same for every time t >= 1 that is
\* not a multiple of interval_length; a time that is one also gets
\* interval_length in the interval that begins at t.
C12_ExposureInsideInterval ==
    nb.ran = 4 =>
        \A i \in 1..Len(nb.df) :
            nb.df[i].time >= 1 =>
                /\ RowSum(nb.exposure[i]) =
                       IF nb.df[i].time % interval_length = 0
                       THEN nb.df[i].time + interval_length
                       ELSE nb.df[i].time
                /\ \A j \in 0..(nb.n_intervals - 1) :
                       nb.exposure[i][j + 1] =
                           IF nb.interval_bounds[j + 2] < nb.df[i].time
                           THEN interval_length
                           ELSE IF Holds(j, nb.df[i].time)
                                THEN nb.df[i].time - nb.interval_bounds[j + 1]
                           ELSE IF nb.interval_bounds[j + 1] = nb.df[i].time
                                THEN interval_length
                           ELSE 0

C12_InsideWitness ==
    /\ nb.ran = 4 /\ Len(nb.df) = 2
    /\ nb.df[1].time = 3 /\ RowSum(nb.exposure[1]) = 6
    /\ nb.df[2].time = 5 /\ nb.exposure[2] = <<3, 2>>

\* C13: for every patient i with time t >= 1 and every interval j,
\* death[i, j] = 1 exactly when the event flag is 1 and j is the interval
\* that holds t; last_period lies in 0..n_intervals-1 and a row holds at
\* most one 1.
C13_DeathMatrix ==
    nb.ran >= 3 =>
        \A i \in 1..Len(nb.df) :
            nb.df[i].time >= 1 =>
                /\ nb.last_period[i] \in 0..(nb.n_intervals - 1)
                /\ Len(nb.death[i]) = nb.n_intervals
                /\ \A j \in 0..(nb.n_intervals - 1) :
                       /\ nb.death[i][j + 1] \in {0, 1}
                       /\ nb.death[i][j + 1] = 1 <=>
                              (nb.df[i].event = 1 /\ Holds(j, nb.df[i].time))
                /\ RowSum(nb.death[i]) <= 1

C13_Witness ==
    /\ nb.ran >= 3 /\ Len(nb.df) = 2
    /\ nb.df[1] = [time |-> 3, event |-> 1] /\ nb.death[1] = <<1, 0, 0>>
    /\ nb.df[2] = [time |-> 7, event |-> 1] /\ nb.death[2] = <<0, 0, 1>>
====
